---- MODULE Spec2Model ----
(***************************************************************************)
(* Nano Banana MCP server: the tool handlers (generate, edit, compose),    *)
(* the Gemini client behind them (request construction, the HTTP call,     *)
(* response normalisation) and the input schemas in front of them.         *)
(*                                                                         *)
(* JavaScript objects are functions from property names to values; a       *)
(* property that is undefined is a name outside the function's DOMAIN.     *)
(* A completion is either a returned value or a thrown Error.              *)
(***************************************************************************)
EXTENDS Integers, Sequences, FiniteSets, TLC

VARIABLES env, inv, net

vars == <<env, inv, net>>

----------------------------------------------------------------------------
(* Bounds of the model *)

\* longest parts list of a response candidate
MaxParts == 3
\* longest images array handed to the composition tool
MaxImages == 3

----------------------------------------------------------------------------
(* JavaScript values *)

EmptyObj == [k \in {} |-> TRUE]

Has(o, k) == k \in DOMAIN o

\* o.k is a truthy string: defined and not ""
TruthyStr(o, k) == Has(o, k) /\ o[k] # ""

\* { ...o, k: v }
Assign(o, k, v) == (k :> v) @@ o

\* the property k: v when v is defined under the name from in src, else nothing
Pick(src, from, k) == IF Has(src, from) THEN k :> src[from] ELSE EmptyObj

Return(v) == [threw |-> FALSE, value |-> v]

Throw(msg) == [threw |-> TRUE, isError |-> TRUE, message |-> msg]

\* variant: the separator also follows the last string
RECURSIVE Join_trailing(_, _)
Join_trailing(strs, sep) ==
    IF Len(strs) = 0 THEN ""
    ELSE strs[1] \o sep \o Join_trailing(Tail(strs), sep)

RECURSIVE Join(_, _)
Join(strs, sep) ==
    IF Len(strs) = 0 THEN ""
    ELSE IF Len(strs) = 1 THEN strs[1]
    ELSE strs[1] \o sep \o Join(Tail(strs), sep)

Min(a, b) == IF a < b THEN a ELSE b

----------------------------------------------------------------------------
(* types.js *)

NANO_BANANA == "gemini-2.5-flash-image"

NANO_BANANA_PRO == "gemini-3-pro-image-preview"

ASPECT_RATIOS == {"1:1", "2:3", "3:2", "3:4", "4:3", "4:5", "5:4", "9:16", "16:9", "21:9"}

RESOLUTIONS == {"1K", "2K", "4K"}

----------------------------------------------------------------------------
(* services/gemini-client.js *)

BASE_URL == "https://generativelanguage.googleapis.com/v1beta/models"

\* variant: only an unset variable is refused, an empty one passes
getApiKey_unsetOnly(e) ==
    IF ~Has(e, "GEMINI_API_KEY")
    THEN Throw("GEMINI_API_KEY environment variable is required. "
               \o "Get your API key from https://aistudio.google.com/apikey")
    ELSE Return(e.GEMINI_API_KEY)

getApiKey(e) ==
    IF ~TruthyStr(e, "GEMINI_API_KEY")
    THEN Throw("GEMINI_API_KEY environment variable is required. "
               \o "Get your API key from https://aistudio.google.com/apikey")
    ELSE Return(e.GEMINI_API_KEY)

\* JSON.parse on the error bodies the model sends: the parsed value, a
\* SyntaxError for text that is not JSON, and null (which has no properties)
JSONParse(text) ==
    CASE text = "{\"error\":{\"code\":400,\"message\":\"Invalid argument\",\"status\":\"INVALID_ARGUMENT\"}}"
           -> [threw |-> FALSE, isNull |-> FALSE,
               value |-> [error |-> [code |-> 400, message |-> "Invalid argument",
                                     status |-> "INVALID_ARGUMENT"]]]
      [] text = "{\"error\":{\"code\":429,\"message\":\"\",\"status\":\"RESOURCE_EXHAUSTED\"}}"
           -> [threw |-> FALSE, isNull |-> FALSE,
               value |-> [error |-> [code |-> 429, message |-> "",
                                     status |-> "RESOURCE_EXHAUSTED"]]]
      [] text = "{\"error\":{\"code\":500}}"
           -> [threw |-> FALSE, isNull |-> FALSE, value |-> [error |-> [code |-> 500]]]
      [] text = "{}"
           -> [threw |-> FALSE, isNull |-> FALSE, value |-> EmptyObj]
      [] text = "null"
           -> [threw |-> FALSE, isNull |-> TRUE]
      [] OTHER
           -> [threw |-> TRUE]

\* variant: errorJson.error?.message ?? errorText, an empty message is kept
errorMessageOf_nullish(errorText) ==
    LET errorJson == JSONParse(errorText) IN
    IF errorJson.threw THEN errorText
    ELSE IF errorJson.isNull THEN errorText
    ELSE IF ~Has(errorJson.value, "error") THEN errorText
    ELSE IF Has(errorJson.value.error, "message")
         THEN errorJson.value.error.message
         ELSE errorText

\* errorJson.error?.message || errorText, inside try/catch
errorMessageOf(errorText) ==
    LET errorJson == JSONParse(errorText) IN
    IF errorJson.threw THEN errorText
    ELSE IF errorJson.isNull THEN errorText
    ELSE IF ~Has(errorJson.value, "error") THEN errorText
    ELSE IF TruthyStr(errorJson.value.error, "message")
         THEN errorJson.value.error.message
         ELSE errorText

\* variant: the URL names the default model, not the selected one
fetchCall_defaultModel(apiKey, model, request) ==
    [url     |-> BASE_URL \o "/" \o NANO_BANANA_PRO \o ":generateContent",
     method  |-> "POST",
     headers |-> [ContentType |-> "application/json", xGoogApiKey |-> apiKey],
     body    |-> request]

\* the fetch() call of makeGeminiRequest
fetchCall(apiKey, model, request) ==
    [url     |-> BASE_URL \o "/" \o model \o ":generateContent",
     method  |-> "POST",
     headers |-> [ContentType |-> "application/json", xGoogApiKey |-> apiKey],
     body    |-> request]

\* makeGeminiRequest after the fetch has resolved with response
makeGeminiRequestResume(response) ==
    IF ~response.ok
    THEN Throw("Gemini API error (" \o ToString(response.status) \o "): "
               \o errorMessageOf(response.text))
    ELSE IF response.json.threw
         THEN Throw(response.json.message)
         ELSE Return(response.json.value)

\* variant: thought parts are read like the others
PartSkipped_never(part) == FALSE

PartSkipped(part) == Has(part, "thought") /\ part.thought

\* variant: a part with inline data is never a text part
PartIsText_unlessImage(part) == TruthyStr(part, "text") /\ ~Has(part, "inlineData")

PartIsText(part) == TruthyStr(part, "text")

PartIsImage(part) == Has(part, "inlineData")

\* variant: an image already recorded is kept
recordImage_keepFirst(result, part) ==
    IF Has(result, "imageData") THEN result
    ELSE Assign(Assign(result, "imageData", part.inlineData.data),
                "mimeType", part.inlineData.mimeType)

recordImage(result, part) ==
    Assign(Assign(result, "imageData", part.inlineData.data),
           "mimeType", part.inlineData.mimeType)

\* the for loop of extractResponseContent
RECURSIVE scanParts(_, _, _)
scanParts(parts, result, textParts) ==
    IF Len(parts) = 0 THEN [result |-> result, textParts |-> textParts]
    ELSE LET part == Head(parts) IN
         IF PartSkipped(part) THEN scanParts(Tail(parts), result, textParts)
         ELSE IF PartIsText(part)
              THEN scanParts(Tail(parts), result, Append(textParts, part.text))
         ELSE IF PartIsImage(part)
              THEN scanParts(Tail(parts), recordImage(result, part), textParts)
         ELSE scanParts(Tail(parts), result, textParts)

\* variant: only a missing candidates field counts, an empty list does not
NoCandidates_absentOnly(response) == ~Has(response, "candidates")

NoCandidates(response) ==
    ~Has(response, "candidates") \/ Len(response.candidates) = 0

\* variant: the parts are taken from the last candidate
extractResponseContent_lastCandidate(response) ==
    IF NoCandidates(response)
    THEN Throw("No response candidates returned from API")
    ELSE IF Len(response.candidates) = 0
    THEN Throw("Cannot read properties of undefined (reading 'content')")
    ELSE IF ~Has(response.candidates[Len(response.candidates)], "content")
    THEN Throw("Cannot read properties of undefined (reading 'parts')")
    ELSE IF ~Has(response.candidates[Len(response.candidates)].content, "parts")
    THEN Throw("parts is not iterable")
    ELSE LET scanned == scanParts(response.candidates[Len(response.candidates)].content.parts,
                                  EmptyObj, <<>>) IN
         IF Len(scanned.textParts) > 0
         THEN Return(Assign(scanned.result, "text", Join(scanned.textParts, "\n")))
         ELSE Return(scanned.result)

\* variant: a candidate that yields neither text nor image is an error
extractResponseContent_emptyThrows(response) ==
    IF NoCandidates(response)
    THEN Throw("No response candidates returned from API")
    ELSE IF Len(response.candidates) = 0
    THEN Throw("Cannot read properties of undefined (reading 'content')")
    ELSE IF ~Has(response.candidates[1], "content")
    THEN Throw("Cannot read properties of undefined (reading 'parts')")
    ELSE IF ~Has(response.candidates[1].content, "parts")
    THEN Throw("parts is not iterable")
    ELSE LET scanned == scanParts(response.candidates[1].content.parts, EmptyObj, <<>>) IN
         IF Len(scanned.textParts) > 0
         THEN Return(Assign(scanned.result, "text", Join(scanned.textParts, "\n")))
         ELSE IF scanned.result = EmptyObj
         THEN Throw("No content returned from API")
         ELSE Return(scanned.result)

extractResponseContent(response) ==
    IF NoCandidates(response)
    THEN Throw("No response candidates returned from API")
    \* candidates[0].content.parts: a TypeError when candidates[0] or its
    \* content is undefined, or when parts is not iterable
    ELSE IF Len(response.candidates) = 0
    THEN Throw("Cannot read properties of undefined (reading 'content')")
    ELSE IF ~Has(response.candidates[1], "content")
    THEN Throw("Cannot read properties of undefined (reading 'parts')")
    ELSE IF ~Has(response.candidates[1].content, "parts")
    THEN Throw("parts is not iterable")
    ELSE LET scanned == scanParts(response.candidates[1].content.parts, EmptyObj, <<>>) IN
         IF Len(scanned.textParts) > 0
         THEN Return(Assign(scanned.result, "text", Join(scanned.textParts, "\n")))
         ELSE Return(scanned.result)

\* variant of generateImage: the search tool is attached for the Pro model only
generateImageRequest_searchProOnly(options) ==
    LET model == IF Has(options, "model") THEN options.model ELSE NANO_BANANA_PRO
        useGoogleSearch ==
            IF Has(options, "useGoogleSearch") THEN options.useGoogleSearch ELSE FALSE
        imageConfig ==
            (IF TruthyStr(options, "aspectRatio")
             THEN "aspectRatio" :> options.aspectRatio ELSE EmptyObj)
            @@ (IF TruthyStr(options, "resolution") /\ model = NANO_BANANA_PRO
                THEN "imageSize" :> options.resolution ELSE EmptyObj)
        generationConfig ==
            [responseModalities |-> <<"TEXT", "IMAGE">>]
            @@ (IF TruthyStr(options, "aspectRatio") \/ TruthyStr(options, "resolution")
                THEN "imageConfig" :> imageConfig ELSE EmptyObj)
        request ==
            [contents |-> << [parts |-> << [text |-> options.prompt] >>] >>,
             generationConfig |-> generationConfig]
            @@ (IF useGoogleSearch /\ model = NANO_BANANA_PRO
                THEN "tools" :> << [google_search |-> EmptyObj] >> ELSE EmptyObj)
    IN  Return([model |-> model, request |-> request])

\* generateImage up to its await: the model and the request it hands to
\* makeGeminiRequest
generateImageRequest(options) ==
    LET model == IF Has(options, "model") THEN options.model ELSE NANO_BANANA_PRO
        useGoogleSearch ==
            IF Has(options, "useGoogleSearch") THEN options.useGoogleSearch ELSE FALSE
        imageConfig ==
            (IF TruthyStr(options, "aspectRatio")
             THEN "aspectRatio" :> options.aspectRatio ELSE EmptyObj)
            @@ (IF TruthyStr(options, "resolution") /\ model = NANO_BANANA_PRO
                THEN "imageSize" :> options.resolution ELSE EmptyObj)
        generationConfig ==
            [responseModalities |-> <<"TEXT", "IMAGE">>]
            @@ (IF TruthyStr(options, "aspectRatio") \/ TruthyStr(options, "resolution")
                THEN "imageConfig" :> imageConfig ELSE EmptyObj)
        request ==
            [contents |-> << [parts |-> << [text |-> options.prompt] >>] >>,
             generationConfig |-> generationConfig]
            @@ (IF useGoogleSearch
                THEN "tools" :> << [google_search |-> EmptyObj] >> ELSE EmptyObj)
    IN  Return([model |-> model, request |-> request])

\* variant of editImage: the resolution is attached whatever the model is
editImageRequest_anyModelSize(options) ==
    LET model == IF Has(options, "model") THEN options.model ELSE NANO_BANANA_PRO
        contents ==
            << [parts |-> << [text |-> options.prompt],
                             [inline_data |-> [mime_type |-> options.imageMimeType,
                                               data |-> options.imageBase64]] >>] >>
        imageConfig ==
            (IF TruthyStr(options, "aspectRatio")
             THEN "aspectRatio" :> options.aspectRatio ELSE EmptyObj)
            @@ (IF TruthyStr(options, "resolution")
                THEN "imageSize" :> options.resolution ELSE EmptyObj)
        generationConfig ==
            [responseModalities |-> <<"TEXT", "IMAGE">>]
            @@ (IF TruthyStr(options, "aspectRatio") \/ TruthyStr(options, "resolution")
                THEN "imageConfig" :> imageConfig ELSE EmptyObj)
        request == [contents |-> contents, generationConfig |-> generationConfig]
    IN  Return([model |-> model, request |-> request])

\* editImage up to its await
editImageRequest(options) ==
    LET model == IF Has(options, "model") THEN options.model ELSE NANO_BANANA_PRO
        contents ==
            << [parts |-> << [text |-> options.prompt],
                             [inline_data |-> [mime_type |-> options.imageMimeType,
                                               data |-> options.imageBase64]] >>] >>
        imageConfig ==
            (IF TruthyStr(options, "aspectRatio")
             THEN "aspectRatio" :> options.aspectRatio ELSE EmptyObj)
            @@ (IF TruthyStr(options, "resolution") /\ model = NANO_BANANA_PRO
                THEN "imageSize" :> options.resolution ELSE EmptyObj)
        generationConfig ==
            [responseModalities |-> <<"TEXT", "IMAGE">>]
            @@ (IF TruthyStr(options, "aspectRatio") \/ TruthyStr(options, "resolution")
                THEN "imageConfig" :> imageConfig ELSE EmptyObj)
        request == [contents |-> contents, generationConfig |-> generationConfig]
    IN  Return([model |-> model, request |-> request])

MAX_REFERENCE_IMAGES == 14

\* variant: each image is put right after the prompt, ahead of the earlier ones
RECURSIVE pushImages_unshift(_, _)
pushImages_unshift(parts, images) ==
    IF Len(images) = 0 THEN parts
    ELSE pushImages_unshift(
             << Head(parts), [inline_data |-> [mime_type |-> Head(images).mimeType,
                                               data |-> Head(images).base64]] >>
             \o Tail(parts),
             Tail(images))

\* the for loop of editImageWithReferences: parts.push per image
RECURSIVE pushImages(_, _)
pushImages(parts, images) ==
    IF Len(images) = 0 THEN parts
    ELSE pushImages(Append(parts, [inline_data |-> [mime_type |-> Head(images).mimeType,
                                                    data |-> Head(images).base64]]),
                    Tail(images))

\* editImageWithReferences up to its await
editImageWithReferencesRequest(options) ==
    LET model == IF Has(options, "model") THEN options.model ELSE NANO_BANANA_PRO
        parts == pushImages(<< [text |-> options.prompt] >>, options.images)
        imageConfig ==
            (IF TruthyStr(options, "aspectRatio")
             THEN "aspectRatio" :> options.aspectRatio ELSE EmptyObj)
            @@ (IF TruthyStr(options, "resolution") /\ model = NANO_BANANA_PRO
                THEN "imageSize" :> options.resolution ELSE EmptyObj)
        generationConfig ==
            [responseModalities |-> <<"TEXT", "IMAGE">>]
            @@ (IF TruthyStr(options, "aspectRatio") \/ TruthyStr(options, "resolution")
                THEN "imageConfig" :> imageConfig ELSE EmptyObj)
        request == [contents |-> << [parts |-> parts] >>,
                    generationConfig |-> generationConfig]
    IN  IF Len(options.images) > MAX_REFERENCE_IMAGES
        THEN Throw("Maximum of 14 reference images allowed")
        ELSE Return([model |-> model, request |-> request])

----------------------------------------------------------------------------
(* schemas: a parse either fails or yields the data with defaults applied *)

Invalid == [ok |-> FALSE]

Valid(data) == [ok |-> TRUE, data |-> data]

MIN_PROMPT == 1

MAX_PROMPT == 10000

MIN_IMAGES == 1

MAX_IMAGES == 14

\* variant: no length limits
PromptOK_anyLength(raw) == Has(raw, "prompt")

\* variant: the upper limit is exclusive
PromptOK_belowMax(raw) ==
    /\ Has(raw, "prompt")
    /\ Len(raw.prompt) >= MIN_PROMPT
    /\ Len(raw.prompt) < MAX_PROMPT

\* z.string().min(1, ...).max(10000, ...)
PromptOK(raw) ==
    /\ Has(raw, "prompt")
    /\ Len(raw.prompt) >= MIN_PROMPT
    /\ Len(raw.prompt) <= MAX_PROMPT

\* variant: the regex carries the i flag
MimeTypeMatches_ignoreCase(s) ==
    s \in {"image/png", "image/jpeg", "image/jpg", "image/gif", "image/webp",
           "image/PNG", "Image/png"}

\* /^image\/(png|jpeg|jpg|gif|webp)$/
MimeTypeMatches(s) ==
    s \in {"image/png", "image/jpeg", "image/jpg", "image/gif", "image/webp"}

\* ModelSchema: enum with default
ModelSchema(raw) ==
    IF ~Has(raw, "model") THEN Valid("model" :> NANO_BANANA_PRO)
    ELSE IF raw.model \in {NANO_BANANA, NANO_BANANA_PRO} THEN Valid("model" :> raw.model)
    ELSE Invalid

\* AspectRatioSchema: optional enum
AspectRatioSchema(raw) ==
    IF ~Has(raw, "aspect_ratio") THEN Valid(EmptyObj)
    ELSE IF raw.aspect_ratio \in ASPECT_RATIOS
         THEN Valid("aspect_ratio" :> raw.aspect_ratio)
    ELSE Invalid

\* ResolutionSchema: optional enum
ResolutionSchema(raw) ==
    IF ~Has(raw, "resolution") THEN Valid(EmptyObj)
    ELSE IF raw.resolution \in RESOLUTIONS THEN Valid("resolution" :> raw.resolution)
    ELSE Invalid

GenerateImageInputSchema(raw) ==
    LET model == ModelSchema(raw)
        aspect == AspectRatioSchema(raw)
        resolution == ResolutionSchema(raw)
    IN  IF /\ DOMAIN raw \subseteq
                 {"prompt", "model", "aspect_ratio", "resolution", "use_google_search"}
           /\ PromptOK(raw)
           /\ model.ok /\ aspect.ok /\ resolution.ok
        THEN Valid(("prompt" :> raw.prompt) @@ model.data @@ aspect.data @@ resolution.data
                   @@ ("use_google_search" :>
                         IF Has(raw, "use_google_search")
                         THEN raw.use_google_search ELSE FALSE))
        ELSE Invalid

EditImageInputSchema(raw) ==
    LET model == ModelSchema(raw)
        aspect == AspectRatioSchema(raw)
        resolution == ResolutionSchema(raw)
    IN  IF /\ DOMAIN raw \subseteq
                 {"prompt", "image_base64", "image_mime_type", "model",
                  "aspect_ratio", "resolution"}
           /\ PromptOK(raw)
           /\ Has(raw, "image_base64") /\ Len(raw.image_base64) >= 1
           /\ Has(raw, "image_mime_type") /\ MimeTypeMatches(raw.image_mime_type)
           /\ model.ok /\ aspect.ok /\ resolution.ok
        THEN Valid(("prompt" :> raw.prompt)
                   @@ ("image_base64" :> raw.image_base64)
                   @@ ("image_mime_type" :> raw.image_mime_type)
                   @@ model.data @@ aspect.data @@ resolution.data)
        ELSE Invalid

\* one entry of images: a z.object that is not strict, so it keeps its two
\* declared keys and strips the others
ImageEntryOK(img) ==
    /\ Has(img, "base64") /\ Len(img.base64) >= 1
    /\ Has(img, "mime_type") /\ MimeTypeMatches(img.mime_type)

ImageEntryData(img) == [base64 |-> img.base64, mime_type |-> img.mime_type]

\* variant: model is the two-valued ModelSchema, as in the other tools
ComposeImagesInputSchema_anyModel(raw) ==
    LET model == ModelSchema(raw)
        aspect == AspectRatioSchema(raw)
        resolution == ResolutionSchema(raw)
    IN  IF /\ DOMAIN raw \subseteq
                 {"prompt", "images", "model", "aspect_ratio", "resolution"}
           /\ PromptOK(raw)
           /\ Has(raw, "images")
           /\ \A k \in 1..Len(raw.images) : ImageEntryOK(raw.images[k])
           /\ Len(raw.images) >= MIN_IMAGES
           /\ Len(raw.images) <= MAX_IMAGES
           /\ model.ok /\ aspect.ok /\ resolution.ok
        THEN Valid(("prompt" :> raw.prompt)
                   @@ ("images" :> [k \in 1..Len(raw.images) |-> ImageEntryData(raw.images[k])])
                   @@ model.data @@ aspect.data @@ resolution.data)
        ELSE Invalid

\* variant: the array may hold one image more
ComposeImagesInputSchema_oneMore(raw) ==
    LET model == IF ~Has(raw, "model") THEN Valid("model" :> NANO_BANANA_PRO)
                 ELSE IF raw.model = NANO_BANANA_PRO THEN Valid("model" :> raw.model)
                 ELSE Invalid
        aspect == AspectRatioSchema(raw)
        resolution == ResolutionSchema(raw)
    IN  IF /\ DOMAIN raw \subseteq
                 {"prompt", "images", "model", "aspect_ratio", "resolution"}
           /\ PromptOK(raw)
           /\ Has(raw, "images")
           /\ \A k \in 1..Len(raw.images) : ImageEntryOK(raw.images[k])
           /\ Len(raw.images) >= MIN_IMAGES
           /\ Len(raw.images) <= MAX_IMAGES + 1
           /\ model.ok /\ aspect.ok /\ resolution.ok
        THEN Valid(("prompt" :> raw.prompt)
                   @@ ("images" :> [k \in 1..Len(raw.images) |-> ImageEntryData(raw.images[k])])
                   @@ model.data @@ aspect.data @@ resolution.data)
        ELSE Invalid

ComposeImagesInputSchema(raw) ==
    LET model == IF ~Has(raw, "model") THEN Valid("model" :> NANO_BANANA_PRO)
                 ELSE IF raw.model = NANO_BANANA_PRO THEN Valid("model" :> raw.model)
                 ELSE Invalid
        aspect == AspectRatioSchema(raw)
        resolution == ResolutionSchema(raw)
    IN  IF /\ DOMAIN raw \subseteq
                 {"prompt", "images", "model", "aspect_ratio", "resolution"}
           /\ PromptOK(raw)
           /\ Has(raw, "images")
           /\ \A k \in 1..Len(raw.images) : ImageEntryOK(raw.images[k])
           /\ Len(raw.images) >= MIN_IMAGES
           /\ Len(raw.images) <= MAX_IMAGES
           /\ model.ok /\ aspect.ok /\ resolution.ok
        THEN Valid(("prompt" :> raw.prompt)
                   @@ ("images" :> [k \in 1..Len(raw.images) |-> ImageEntryData(raw.images[k])])
                   @@ model.data @@ aspect.data @@ resolution.data)
        ELSE Invalid

inputSchema(tool, raw) ==
    CASE tool = "nanobanana_generate_image" -> GenerateImageInputSchema(raw)
      [] tool = "nanobanana_edit_image"     -> EditImageInputSchema(raw)
      [] tool = "nanobanana_compose_images" -> ComposeImagesInputSchema(raw)

----------------------------------------------------------------------------
(* index.js: the three tool handlers *)

GENERATE == "nanobanana_generate_image"

EDIT == "nanobanana_edit_image"

COMPOSE == "nanobanana_compose_images"

Tools == {GENERATE, EDIT, COMPOSE}

\* params.images.map(...) of the composition handler
mapImages(images) ==
    [k \in 1..Len(images) |-> [base64 |-> images[k].base64, mimeType |-> images[k].mime_type]]

\* the options object the handler passes to the client function
handlerOptions(tool, params) ==
    CASE tool = GENERATE ->
            ("prompt" :> params.prompt) @@ Pick(params, "model", "model")
            @@ Pick(params, "aspect_ratio", "aspectRatio")
            @@ Pick(params, "resolution", "resolution")
            @@ Pick(params, "use_google_search", "useGoogleSearch")
      [] tool = EDIT ->
            ("prompt" :> params.prompt)
            @@ ("imageBase64" :> params.image_base64)
            @@ ("imageMimeType" :> params.image_mime_type)
            @@ Pick(params, "model", "model")
            @@ Pick(params, "aspect_ratio", "aspectRatio")
            @@ Pick(params, "resolution", "resolution")
      [] tool = COMPOSE ->
            ("prompt" :> params.prompt)
            @@ ("images" :> mapImages(params.images))
            @@ Pick(params, "model", "model")
            @@ Pick(params, "aspect_ratio", "aspectRatio")
            @@ Pick(params, "resolution", "resolution")

\* the client function the handler awaits, up to that function's own await
clientRequest(tool, options) ==
    CASE tool = GENERATE -> generateImageRequest(options)
      [] tool = EDIT     -> editImageRequest(options)
      [] tool = COMPOSE  -> editImageWithReferencesRequest(options)

\* params.model || MODELS.NANO_BANANA_PRO; the composition handler reports
\* MODELS.NANO_BANANA_PRO whatever params.model is
outputModel(tool, params) ==
    IF tool = COMPOSE THEN NANO_BANANA_PRO
    ELSE IF TruthyStr(params, "model") THEN params.model ELSE NANO_BANANA_PRO

\* prompt.substring(0, 100) followed by "..." when the prompt is longer
promptPreview(prompt) ==
    SubSeq(prompt, 1, Min(100, Len(prompt))) \o (IF Len(prompt) > 100 THEN "..." ELSE "")

\* the leading pictograph of a header is written by its name
successHeader(tool) ==
    CASE tool = GENERATE -> ":white_check_mark: Image generated successfully\n\n"
      [] tool = EDIT     -> ":white_check_mark: Image edited successfully\n\n"
      [] tool = COMPOSE  -> ":white_check_mark: Images composed successfully\n\n"

failureHeader(tool) ==
    CASE tool = GENERATE -> ":x: Image generation failed\n\n**Error:** "
      [] tool = EDIT     -> ":x: Image editing failed\n\n**Error:** "
      [] tool = COMPOSE  -> ":x: Image composition failed\n\n**Error:** "

failureFooter(tool) ==
    IF tool = GENERATE
    THEN "\n\n**Troubleshooting:**\n- Ensure GEMINI_API_KEY environment variable is set\n"
         \o "- Check if your prompt complies with content policies\n- Try again if rate limited"
    ELSE ""

promptLabel(tool) == IF tool = EDIT THEN "**Edit:** " ELSE "**Prompt:** "

imageLabel(tool) ==
    CASE tool = GENERATE -> "\n**Image:** Base64 data available ("
      [] tool = EDIT     -> "\n**Edited Image:** Base64 data available ("
      [] tool = COMPOSE  -> "\n**Composed Image:** Base64 data available ("

\* the try block of a handler after its awaited call returned result
handlerSuccess(tool, params, result) ==
    LET output ==
            [success |-> TRUE, model |-> outputModel(tool, params), prompt |-> params.prompt]
            @@ (IF tool = COMPOSE THEN "imageCount" :> Len(params.images) ELSE EmptyObj)
            @@ Pick(result, "imageData", "imageData")
            @@ Pick(result, "mimeType", "mimeType")
            @@ Pick(result, "text", "text")
        textContent ==
            successHeader(tool)
            \o "**Model:** " \o output.model \o "\n"
            \o (IF tool = COMPOSE
                THEN "**Input Images:** " \o ToString(Len(params.images)) \o "\n" ELSE "")
            \o promptLabel(tool) \o promptPreview(params.prompt) \o "\n"
            \o (IF TruthyStr(result, "text")
                THEN "\n**Model Response:**\n" \o result.text \o "\n" ELSE "")
            \o (IF TruthyStr(result, "imageData")
                THEN imageLabel(tool)
                     \o (IF Has(result, "mimeType") THEN result.mimeType ELSE "undefined")
                     \o ")\n" \o "Data length: " \o ToString(Len(result.imageData))
                     \o " characters"
                ELSE "")
    IN  [content |-> << [type |-> "text", text |-> textContent] >>,
         structuredContent |-> output]

\* variant: the instanceof test is inverted, the message is never read
handlerCatch_unknownError(tool, params, error) ==
    LET errorMessage == IF ~error.isError THEN error.message ELSE "Unknown error occurred"
        output == [success |-> FALSE, model |-> outputModel(tool, params),
                   prompt |-> params.prompt, error |-> errorMessage]
    IN  [content |-> << [type |-> "text",
                         text |-> failureHeader(tool) \o errorMessage \o failureFooter(tool)] >>,
         structuredContent |-> output]

\* the catch block of a handler
handlerCatch(tool, params, error) ==
    LET errorMessage == IF error.isError THEN error.message ELSE "Unknown error occurred"
        output == [success |-> FALSE, model |-> outputModel(tool, params),
                   prompt |-> params.prompt, error |-> errorMessage]
    IN  [content |-> << [type |-> "text",
                         text |-> failureHeader(tool) \o errorMessage \o failureFooter(tool)] >>,
         structuredContent |-> output]

\* a handler from its entry to its first suspension: either it has returned
\* (the catch block ran) or it is suspended in fetch with one request issued
handlerStart(tool, params, e) ==
    LET guard == getApiKey(e)
        built == clientRequest(tool, handlerOptions(tool, params))
        apiKey == getApiKey(e)
    IN  IF guard.threw
        THEN [suspended |-> FALSE, returned |-> handlerCatch(tool, params, guard)]
        ELSE IF built.threw
        THEN [suspended |-> FALSE, returned |-> handlerCatch(tool, params, built)]
        ELSE IF apiKey.threw
        THEN [suspended |-> FALSE, returned |-> handlerCatch(tool, params, apiKey)]
        ELSE [suspended |-> TRUE,
              fetch |-> fetchCall(apiKey.value, built.value.model, built.value.request)]

\* a handler from the resolution of its fetch to its return
handlerResume(tool, params, response) ==
    LET body == makeGeminiRequestResume(response)
        result == extractResponseContent(body.value)
    IN  IF body.threw THEN handlerCatch(tool, params, body)
        ELSE IF result.threw THEN handlerCatch(tool, params, result)
        ELSE handlerSuccess(tool, params, result.value)

\* a handler whose fetch rejected (no response from the network)
handlerReject(tool, params, error) == handlerCatch(tool, params, error)

----------------------------------------------------------------------------
(* Inputs: what a client may send and what the network may answer *)

Opt(k, S) == {EmptyObj} \cup {k :> v : v \in S}

SeqsUpTo(S, n) == UNION {[1..m -> S] : m \in 0..n}

EnvChoices == {EmptyObj, [GEMINI_API_KEY |-> ""], [GEMINI_API_KEY |-> "AIza-test-key"]}

PromptInputs == {"", "a red circle"}

ModelInputs == {NANO_BANANA, NANO_BANANA_PRO, "gemini-pro-vision"}

AspectInputs == {"16:9", "16:10"}

ResolutionInputs == {"4K", "4k"}

ImageInputs ==
    {[base64 |-> "QUJD", mime_type |-> "image/png"],
     [base64 |-> "REVG", mime_type |-> "image/jpeg"],
     [base64 |-> "", mime_type |-> "image/webp"],
     [base64 |-> "R0hJ", mime_type |-> "image/bmp"]}

CommonRaws ==
    {p @@ m @@ a @@ r :
        p \in Opt("prompt", PromptInputs), m \in Opt("model", ModelInputs),
        a \in Opt("aspect_ratio", AspectInputs), r \in Opt("resolution", ResolutionInputs)}

GenerateRaws ==
    {c @@ g @@ x : c \in CommonRaws, g \in Opt("use_google_search", BOOLEAN),
                   x \in Opt("seed", {"42"})}

EditRaws ==
    {c @@ ("image_base64" :> img.base64) @@ ("image_mime_type" :> img.mime_type) :
        c \in CommonRaws, img \in ImageInputs}

ComposeRaws ==
    {c @@ ("images" :> imgs) : c \in CommonRaws, imgs \in SeqsUpTo(ImageInputs, MaxImages)}

RawInputs ==
    [tool \in Tools |->
        CASE tool = GENERATE -> GenerateRaws
          [] tool = EDIT     -> EditRaws
          [] tool = COMPOSE  -> ComposeRaws]

TextPart == [text |-> "A red circle."]

ThoughtPart == [text |-> "The user wants a circle.", thought |-> TRUE]

ThoughtImagePart ==
    [inlineData |-> [mimeType |-> "image/webp", data |-> "draft"], thought |-> TRUE]

ImagePartA == [inlineData |-> [mimeType |-> "image/png", data |-> "iVBORw0KGgo"]]

ImagePartB == [inlineData |-> [mimeType |-> "image/jpeg", data |-> "/9j/4AAQ"]]

CaptionedImagePart ==
    [text |-> "Here it is", inlineData |-> [mimeType |-> "image/gif", data |-> "R0lGODlh"]]

EmptyTextImagePart ==
    [text |-> "", inlineData |-> [mimeType |-> "image/png", data |-> "AAAA"]]

PartInputs ==
    {TextPart, ThoughtPart, ThoughtImagePart, ImagePartA, ImagePartB,
     CaptionedImagePart, EmptyTextImagePart}

Candidate(parts) == [content |-> [parts |-> parts, role |-> "model"], finishReason |-> "STOP"]

BodyInputs ==
    {EmptyObj, [candidates |-> <<>>], [candidates |-> << [finishReason |-> "SAFETY"] >>],
     [candidates |-> << [content |-> [role |-> "model"], finishReason |-> "STOP"] >>]}
    \cup {[candidates |-> << Candidate(ps) >>] : ps \in SeqsUpTo(PartInputs, MaxParts)}
    \cup {[candidates |-> << Candidate(ps), Candidate(<<TextPart, ImagePartB>>) >>] :
            ps \in SeqsUpTo(PartInputs, 1)}

ErrorTextInputs ==
    {"{\"error\":{\"code\":400,\"message\":\"Invalid argument\",\"status\":\"INVALID_ARGUMENT\"}}",
     "{\"error\":{\"code\":429,\"message\":\"\",\"status\":\"RESOURCE_EXHAUSTED\"}}",
     "{\"error\":{\"code\":500}}", "{}", "null", "Internal Server Error", ""}

ResponseInputs ==
    {[ok |-> TRUE, status |-> 200, json |-> Return(b)] : b \in BodyInputs}
    \cup {[ok |-> TRUE, status |-> 200,
           json |-> Throw("Unexpected token < in JSON at position 0")]}
    \cup {[ok |-> FALSE, status |-> st, text |-> t] :
            st \in {400, 429, 500}, t \in ErrorTextInputs}

----------------------------------------------------------------------------
(* The server: tool invocations, each suspended at most once, in fetch *)

Tasks == {1}

Init ==
    /\ env \in EnvChoices
    /\ inv = [i \in Tasks |-> [pc |-> "idle"]]
    /\ net = [i \in Tasks |-> <<>>]

\* tools/call with arguments drawn from Raws: the input is parsed by the
\* tool's inputSchema, and the handler runs on the parsed data up to its first
\* suspension
CallToolFrom(i, Raws) ==
    /\ inv[i].pc = "idle"
    /\ \E tool \in Tools : \E raw \in Raws[tool] :
       LET parsed == inputSchema(tool, raw) IN
       IF ~parsed.ok
       THEN /\ inv' = [inv EXCEPT ![i] =
                         [pc |-> "done", tool |-> tool, accepted |-> FALSE, raw |-> raw]]
            /\ net' = net
       ELSE LET started == handlerStart(tool, parsed.data, env) IN
            IF started.suspended
            THEN /\ inv' = [inv EXCEPT ![i] =
                              [pc |-> "awaiting", tool |-> tool, accepted |-> TRUE,
                               raw |-> raw, params |-> parsed.data]]
                 /\ net' = [net EXCEPT ![i] = Append(@, started.fetch)]
            ELSE /\ inv' = [inv EXCEPT ![i] =
                              [pc |-> "done", tool |-> tool, accepted |-> TRUE,
                               raw |-> raw, params |-> parsed.data,
                               returned |-> started.returned]]
                 /\ net' = net
    /\ UNCHANGED env

CallTool(i) == CallToolFrom(i, RawInputs)

\* the fetch of invocation i resolves with an HTTP response drawn from Responses
FetchResolveFrom(i, Responses) ==
    /\ inv[i].pc = "awaiting"
    /\ \E response \in Responses :
       inv' = [inv EXCEPT ![i] =
                 [pc |-> "done", tool |-> @.tool, accepted |-> TRUE, raw |-> @.raw,
                  params |-> @.params, response |-> response,
                  returned |-> handlerResume(@.tool, @.params, response)]]
    /\ UNCHANGED <<env, net>>

FetchResolve(i) == FetchResolveFrom(i, ResponseInputs)

\* the fetch of invocation i rejects: no HTTP response was received
FetchReject(i) ==
    /\ inv[i].pc = "awaiting"
    /\ inv' = [inv EXCEPT ![i] =
                 [pc |-> "done", tool |-> @.tool, accepted |-> TRUE, raw |-> @.raw,
                  params |-> @.params,
                  returned |-> handlerReject(@.tool, @.params, Throw("fetch failed"))]]
    /\ UNCHANGED <<env, net>>

\* the result goes back to the client and the invocation's state is dropped
Deliver(i) ==
    /\ inv[i].pc = "done"
    /\ inv' = [inv EXCEPT ![i] = [pc |-> "idle"]]
    /\ net' = [net EXCEPT ![i] = <<>>]
    /\ UNCHANGED env

Next ==
    \/ \E i \in Tasks : CallTool(i)
    \/ \E i \in Tasks : FetchResolve(i)
    \/ \E i \in Tasks : FetchReject(i)
    \/ \E i \in Tasks : Deliver(i)

Spec == Init /\ [][Next]_vars

----------------------------------------------------------------------------
(* The same server, called with inputs at the edges of the input contracts *)

\* a string of n characters
RECURSIVE Repeat(_)
Repeat(n) ==
    IF n = 0 THEN ""
    ELSE IF n % 2 = 0 THEN LET half == Repeat(n \div 2) IN half \o half
    ELSE "x" \o Repeat(n - 1)

EdgePrompts == {"", "x", Repeat(MAX_PROMPT), Repeat(MAX_PROMPT + 1)}

EdgeMimeTypes ==
    {"image/png", "image/jpeg", "image/jpg", "image/gif", "image/webp",
     "image/PNG", "Image/png", "image/bmp", "image/pngx", "ximage/png",
     "image/png\n", "image", ""}

EdgeImages ==
    {[base64 |-> b, mime_type |-> m] : b \in {"", "QUJD"}, m \in EdgeMimeTypes}
    \cup {[base64 |-> "QUJD", mime_type |-> "image/png", caption |-> "a cat"]}

\* n copies of one valid image
ImageList(n) == [k \in 1..n |-> [base64 |-> "REVG", mime_type |-> "image/jpeg"]]

EdgeImageLists ==
    {ImageList(n) : n \in {0, MIN_IMAGES, MAX_IMAGES, MAX_IMAGES + 1}}
    \cup {<<img>> : img \in EdgeImages}
    \cup {<<[base64 |-> "REVG", mime_type |-> "image/jpeg"], img>> : img \in EdgeImages}

EdgeCommonRaws ==
    {p @@ m @@ r :
        p \in Opt("prompt", EdgePrompts),
        m \in Opt("model", {NANO_BANANA, "gemini-pro-vision"}),
        r \in Opt("resolution", {"2K"})}

EdgeGenerateRaws ==
    {c @@ x : c \in EdgeCommonRaws,
              x \in Opt("seed", {"42"}) \cup {"image_base64" :> "QUJD"}}

EdgeEditRaws ==
    {c @@ ("image_base64" :> img.base64) @@ ("image_mime_type" :> img.mime_type) @@ x :
        c \in EdgeCommonRaws,
        img \in {e \in EdgeImages : DOMAIN e = {"base64", "mime_type"}},
        x \in Opt("use_google_search", {TRUE})}

EdgeComposeRaws ==
    {c @@ ("images" :> imgs) : c \in EdgeCommonRaws, imgs \in EdgeImageLists}

EdgeRaws ==
    [tool \in Tools |->
        CASE tool = GENERATE -> EdgeGenerateRaws
          [] tool = EDIT     -> EdgeEditRaws
          [] tool = COMPOSE  -> EdgeComposeRaws]

EdgeResponses ==
    {[ok |-> TRUE, status |-> 200,
      json |-> Return([candidates |-> << Candidate(<<TextPart, ImagePartA>>) >>])],
     [ok |-> TRUE, status |-> 200, json |-> Return([candidates |-> <<>>])],
     [ok |-> FALSE, status |-> 500, text |-> "Internal Server Error"]}

CallToolAtEdge(i) == CallToolFrom(i, EdgeRaws)

FetchResolveAtEdge(i) == FetchResolveFrom(i, EdgeResponses)

NextAtEdge ==
    \/ \E i \in Tasks : CallToolAtEdge(i)
    \/ \E i \in Tasks : FetchResolveAtEdge(i)
    \/ \E i \in Tasks : FetchReject(i)
    \/ \E i \in Tasks : Deliver(i)

SpecAtEdge == Init /\ [][NextAtEdge]_vars

----------------------------------------------------------------------------
(* The same server, called with one plain input per tool and every response *)

PlainRaws ==
    [tool \in Tools |->
        CASE tool = GENERATE -> {[prompt |-> "a red circle"]}
          [] tool = EDIT ->
                {[prompt |-> "make it blue", image_base64 |-> "QUJD",
                  image_mime_type |-> "image/png"]}
          [] tool = COMPOSE ->
                {[prompt |-> "put them side by side",
                  images |-> << [base64 |-> "QUJD", mime_type |-> "image/png"],
                                [base64 |-> "REVG", mime_type |-> "image/jpeg"] >>]}]

CallToolPlain(i) == CallToolFrom(i, PlainRaws)

NextReplies ==
    \/ \E i \in Tasks : CallToolPlain(i)
    \/ \E i \in Tasks : FetchResolve(i)
    \/ \E i \in Tasks : FetchReject(i)
    \/ \E i \in Tasks : Deliver(i)

SpecReplies == Init /\ [][NextReplies]_vars

----------------------------------------------------------------------------
(* The three request builders of the client, applied to the same options *)

ClientImages ==
    {[base64 |-> "QUJD", mimeType |-> "image/png"],
     [base64 |-> "REVG", mimeType |-> "image/jpeg"]}

\* what the three functions destructure alike
SharedOptions ==
    {("prompt" :> p) @@ m @@ a @@ r :
        p \in {"a red circle", "x"},
        m \in Opt("model", {NANO_BANANA, NANO_BANANA_PRO}),
        a \in Opt("aspectRatio", {"16:9"}),
        r \in Opt("resolution", {"2K"})}

SearchOptions == Opt("useGoogleSearch", BOOLEAN)

\* one round: generateImage, editImage with image and editImageWithReferences
\* with no image, with [image] and with the list images, each up to its await
Build(i) ==
    /\ inv[i].pc = "idle"
    /\ \E shared \in SharedOptions, search \in SearchOptions, image \in ClientImages,
          images \in SeqsUpTo(ClientImages, MaxImages) :
          inv' = [inv EXCEPT ![i] =
                    [pc |-> "built",
                     shared |-> shared,
                     search |-> search,
                     image |-> image,
                     images |-> images,
                     generate |-> generateImageRequest(shared @@ search),
                     edit |-> editImageRequest(
                                 shared @@ ("imageBase64" :> image.base64)
                                        @@ ("imageMimeType" :> image.mimeType)),
                     withNone |-> editImageWithReferencesRequest(
                                     shared @@ ("images" :> <<>>)),
                     withOne |-> editImageWithReferencesRequest(
                                    shared @@ ("images" :> <<image>>)),
                     withList |-> editImageWithReferencesRequest(
                                     shared @@ ("images" :> images))]]
    /\ UNCHANGED <<env, net>>

Discard(i) ==
    /\ inv[i].pc = "built"
    /\ inv' = [inv EXCEPT ![i] = [pc |-> "idle"]]
    /\ UNCHANGED <<env, net>>

NextBuilders ==
    \/ \E i \in Tasks : Build(i)
    \/ \E i \in Tasks : Discard(i)

SpecBuilders == Init /\ [][NextBuilders]_vars

----------------------------------------------------------------------------
(* Two invocations in flight at once: the event loop runs one handler step *)
(* at a time, and a handler gives way only at its await                    *)

Pair == {1, 2}

PairRaws ==
    [tool \in Tools |->
        CASE tool = GENERATE ->
                {[prompt |-> "a red circle"],
                 [prompt |-> "a blue square", model |-> NANO_BANANA,
                  resolution |-> "2K", use_google_search |-> TRUE],
                 [prompt |-> ""]}
          [] tool = EDIT ->
                {[prompt |-> "make it blue", image_base64 |-> "QUJD",
                  image_mime_type |-> "image/png", aspect_ratio |-> "16:9"]}
          [] tool = COMPOSE ->
                {[prompt |-> "put them side by side", resolution |-> "4K",
                  images |-> << [base64 |-> "QUJD", mime_type |-> "image/png"],
                                [base64 |-> "REVG", mime_type |-> "image/jpeg"] >>]}]

PairResponses ==
    {[ok |-> TRUE, status |-> 200, json |-> Return([candidates |-> << Candidate(ps) >>])] :
        ps \in {<<TextPart, ImagePartA>>, <<ImagePartB>>, <<CaptionedImagePart, TextPart>>,
                <<ThoughtPart>>}}
    \cup {[ok |-> TRUE, status |-> 200, json |-> Return([candidates |-> <<>>])],
          [ok |-> FALSE, status |-> 429, text |-> "{\"error\":{\"code\":500}}"]}

InitPair ==
    /\ env \in EnvChoices
    /\ inv = [i \in Pair |-> [pc |-> "idle"]]
    /\ net = [i \in Pair |-> <<>>]

CallToolPair(i) == CallToolFrom(i, PairRaws)

\* variant: the result is built from a response kept in one module-level
\* variable, written by whichever invocation resolved last
FetchResolvePair_sharedResponse(i) ==
    /\ inv[i].pc = "awaiting"
    /\ \E response \in PairResponses :
       LET others == {j \in Pair : j # i /\ inv[j].pc = "done" /\ "response" \in DOMAIN inv[j]}
           seen == IF others = {} THEN response ELSE inv[CHOOSE j \in others : TRUE].response
       IN  inv' = [inv EXCEPT ![i] =
                     [pc |-> "done", tool |-> @.tool, accepted |-> TRUE, raw |-> @.raw,
                      params |-> @.params, response |-> response,
                      returned |-> handlerResume(@.tool, @.params, seen)]]
    /\ UNCHANGED <<env, net>>

FetchResolvePair(i) == FetchResolveFrom(i, PairResponses)

NextPair ==
    \/ \E i \in Pair : CallToolPair(i)
    \/ \E i \in Pair : FetchResolvePair(i)
    \/ \E i \in Pair : FetchReject(i)
    \/ \E i \in Pair : Deliver(i)

SpecPair == InitPair /\ [][NextPair]_vars

----------------------------------------------------------------------------
(* index.js, HTTP transport: POST /mcp behind validateBearerToken *)

\* authHeader.startsWith("Bearer ")
StartsWithBearer(authHeader) ==
    Len(authHeader) >= 7 /\ SubSeq(authHeader, 1, 7) = "Bearer "

\* variant: the scheme word is matched in either case
validateBearerToken_anyCase(headers, e) ==
    IF ~TruthyStr(e, "MCP_AUTH_TOKEN") THEN TRUE
    ELSE IF ~TruthyStr(headers, "authorization") THEN FALSE
    ELSE LET authHeader == headers.authorization
             token == IF Len(authHeader) >= 7
                         /\ SubSeq(authHeader, 1, 7) \in {"Bearer ", "bearer ", "BEARER "}
                      THEN SubSeq(authHeader, 8, Len(authHeader))
                      ELSE authHeader
         IN  token = e.MCP_AUTH_TOKEN

\* validateBearerToken(req.headers.authorization), with process.env as e
validateBearerToken(headers, e) ==
    IF ~TruthyStr(e, "MCP_AUTH_TOKEN") THEN TRUE
    ELSE IF ~TruthyStr(headers, "authorization") THEN FALSE
    ELSE LET authHeader == headers.authorization
             token == IF StartsWithBearer(authHeader)
                      THEN SubSeq(authHeader, 8, Len(authHeader))
                      ELSE authHeader
         IN  token = e.MCP_AUTH_TOKEN

HttpEnvChoices ==
    {k @@ t : k \in Opt("GEMINI_API_KEY", {"AIza-test-key"}),
              t \in Opt("MCP_AUTH_TOKEN", {"", "s3cret", "Bearer s3cret"})}

HeaderInputs ==
    Opt("authorization",
        {"", "s3cret", "Bearer s3cret", "bearer s3cret", "Bearer  s3cret", "Bearer s3cre",
         "Bearer s3cret ", "s3cretx", "Basic s3cret", "Bearer ", "Bearer Bearer s3cret"})

InitHTTP ==
    /\ env \in HttpEnvChoices
    /\ inv = [i \in Tasks |-> [pc |-> "idle"]]
    /\ net = [i \in Tasks |-> <<>>]

\* app.post("/mcp"): 401 and return, or a transport is connected for the
\* request
PostMcp(i) ==
    /\ inv[i].pc = "idle"
    /\ \E headers \in HeaderInputs :
        IF ~validateBearerToken(headers, env)
        THEN inv' = [inv EXCEPT ![i] =
                       [pc |-> "closed", headers |-> headers, status |-> 401,
                        body |-> [error |-> "Unauthorized - invalid or missing bearer token"]]]
        ELSE inv' = [inv EXCEPT ![i] = [pc |-> "connected", headers |-> headers]]
    /\ UNCHANGED <<env, net>>

\* transport.handleRequest: the tools/call of the request body is dispatched
\* to its handler
HandleRequest(i) ==
    /\ inv[i].pc = "connected"
    /\ \E tool \in Tools : \E raw \in PlainRaws[tool] :
       LET parsed == inputSchema(tool, raw)
           started == handlerStart(tool, parsed.data, env)
       IN  IF started.suspended
           THEN /\ inv' = [inv EXCEPT ![i] =
                             [pc |-> "awaiting", headers |-> @.headers, tool |-> tool,
                              accepted |-> TRUE, raw |-> raw, params |-> parsed.data]]
                /\ net' = [net EXCEPT ![i] = Append(@, started.fetch)]
           ELSE /\ inv' = [inv EXCEPT ![i] =
                             [pc |-> "done", headers |-> @.headers, tool |-> tool,
                              accepted |-> TRUE, raw |-> raw, params |-> parsed.data,
                              returned |-> started.returned]]
                /\ net' = net
    /\ UNCHANGED env

\* the 401 response has been sent
Close(i) ==
    /\ inv[i].pc = "closed"
    /\ inv' = [inv EXCEPT ![i] = [pc |-> "idle"]]
    /\ UNCHANGED <<env, net>>

NextHTTP ==
    \/ \E i \in Tasks : PostMcp(i)
    \/ \E i \in Tasks : HandleRequest(i)
    \/ \E i \in Tasks : Close(i)
    \/ \E i \in Tasks : FetchResolveAtEdge(i)
    \/ \E i \in Tasks : FetchReject(i)
    \/ \E i \in Tasks : Deliver(i)

SpecHTTP == InitHTTP /\ [][NextHTTP]_vars

----------------------------------------------------------------------------
(* Properties *)

HasCredential == "GEMINI_API_KEY" \in DOMAIN env /\ env.GEMINI_API_KEY # ""

\* invocation i has returned after an HTTP response was received
Answered(i) == inv[i].pc = "done" /\ "response" \in DOMAIN inv[i]

Output(i) == inv[i].returned.structuredContent

\* invocation i received a 2xx response whose body holds a first candidate
\* with a parts list
Normalized(i) ==
    /\ Answered(i)
    /\ inv[i].response.ok
    /\ ~inv[i].response.json.threw
    /\ "candidates" \in DOMAIN inv[i].response.json.value
    /\ Len(inv[i].response.json.value.candidates) > 0
    /\ "content" \in DOMAIN inv[i].response.json.value.candidates[1]
    /\ "parts" \in DOMAIN inv[i].response.json.value.candidates[1].content

PartsOf(i) == inv[i].response.json.value.candidates[1].content.parts

IsThought(part) == "thought" \in DOMAIN part /\ part.thought = TRUE

HasText(part) == "text" \in DOMAIN part /\ part.text # ""

\* positions of the non-thought parts that carry inline data and no text
ImagePositions(parts) ==
    {k \in 1..Len(parts) :
        /\ ~IsThought(parts[k])
        /\ "inlineData" \in DOMAIN parts[k]
        /\ ~HasText(parts[k])}

First(S) == CHOOSE k \in S : \A j \in S : k <= j

Last(S) == CHOOSE k \in S : \A j \in S : k >= j

VisibleParts(parts) == SelectSeq(parts, LAMBDA part : ~IsThought(part))

TextsOf(parts) ==
    LET texts == SelectSeq(parts, HasText) IN [k \in 1..Len(texts) |-> texts[k].text]

\* C2: no thought part reaches the caller: the result's text is made of the
\* texts of the non-thought parts only, and its imageData and mimeType are
\* those of one non-thought part, wherever the thought parts stand; parts
\* [thought-text, real-text, image] give text = real-text and an imageData.
C2_ThoughtNeverSurfaces ==
    \A i \in Tasks :
        Normalized(i) =>
            LET visible == VisibleParts(PartsOf(i)) IN
            /\ Output(i).success
            /\ "text" \in DOMAIN Output(i) =>
                  Output(i).text = Join(TextsOf(visible), "\n")
            /\ "imageData" \in DOMAIN Output(i) =>
                  \E k \in 1..Len(visible) :
                      /\ "inlineData" \in DOMAIN visible[k]
                      /\ Output(i).imageData = visible[k].inlineData.data
                      /\ Output(i).mimeType = visible[k].inlineData.mimeType
            /\ PartsOf(i) = <<ThoughtPart, TextPart, ImagePartA>> =>
                  /\ Output(i).text = TextPart.text
                  /\ Output(i).imageData = ImagePartA.inlineData.data

C2_Witness ==
    \E i \in Tasks :
        /\ Normalized(i)
        /\ PartsOf(i) = <<ThoughtPart, TextPart, ImagePartA>>
        /\ Output(i).text = "A red circle."
        /\ "imageData" \in DOMAIN Output(i)

\* invocation i received a 2xx response whose JSON body has no candidates
\* field or an empty one
ZeroCandidates(i) ==
    /\ Answered(i)
    /\ inv[i].response.ok
    /\ ~inv[i].response.json.threw
    /\ \/ "candidates" \notin DOMAIN inv[i].response.json.value
       \/ inv[i].response.json.value.candidates = <<>>

\* C3: a 2xx response without candidates never yields an empty result: the
\* generate, edit and compose tools report success:false with the message
\* that no candidates were returned.
C3_ZeroCandidatesFail ==
    \A i \in Tasks :
        ZeroCandidates(i) =>
            /\ inv[i].tool \in {GENERATE, EDIT, COMPOSE}
            /\ Output(i).success = FALSE
            /\ Output(i).error = "No response candidates returned from API"
            /\ DOMAIN Output(i) = {"success", "model", "prompt", "error"}

C3_Witness ==
    \E i \in Tasks :
        /\ ZeroCandidates(i)
        /\ inv[i].tool = COMPOSE
        /\ inv[i].response.json.value = [candidates |-> <<>>]
        /\ Output(i).success = FALSE

\* invocation i passed its input schema (it is suspended in fetch or has
\* returned)
Accepted(i) == inv[i].pc \in {"awaiting", "done"} /\ inv[i].accepted

\* the images of an accepted invocation, in input order
InputImages(i) ==
    CASE inv[i].tool = GENERATE -> <<>>
      [] inv[i].tool = EDIT ->
            << [mime_type |-> inv[i].params.image_mime_type,
                data |-> inv[i].params.image_base64] >>
      [] inv[i].tool = COMPOSE ->
            [k \in 1..Len(inv[i].params.images) |->
                [mime_type |-> inv[i].params.images[k].mime_type,
                 data |-> inv[i].params.images[k].base64]]

\* C4: the envelope preserves part order: its single content block holds the
\* prompt text part and then one inline-binary part per input image, in input
\* order, with that image's mime type and base64 payload unchanged.
C4_PartOrderPreserved ==
    \A i \in Tasks :
        \A r \in 1..Len(net[i]) :
            LET contents == net[i][r].body.contents
                images == InputImages(i)
            IN  /\ Len(contents) = 1
                /\ DOMAIN contents[1] = {"parts"}
                /\ Len(contents[1].parts) = 1 + Len(images)
                /\ contents[1].parts[1] = [text |-> inv[i].params.prompt]
                /\ \A k \in 1..Len(images) :
                      contents[1].parts[k + 1] = [inline_data |-> images[k]]

C4_Witness ==
    \E i \in Tasks :
        /\ inv[i].pc = "awaiting"
        /\ inv[i].tool = COMPOSE
        /\ Len(inv[i].params.images) = 3
        /\ inv[i].params.images[1] # inv[i].params.images[2]
        /\ Len(net[i]) = 1
        /\ Len(net[i][1].body.contents[1].parts) = 4
        /\ net[i][1].body.contents[1].parts[2].inline_data.data = inv[i].params.images[1].base64
        /\ net[i][1].body.contents[1].parts[3].inline_data.data = inv[i].params.images[2].base64

\* the request r of invocation i carries an imageSize
CarriesImageSize(i, r) ==
    /\ "imageConfig" \in DOMAIN net[i][r].body.generationConfig
    /\ "imageSize" \in DOMAIN net[i][r].body.generationConfig.imageConfig

\* C5: for generate, edit and compose alike the envelope carries imageSize if
\* and only if a resolution was supplied and the model is the Pro identifier;
\* with the base-tier model a supplied resolution is dropped and the call
\* still goes out.
C5_ResolutionOnlyForPro ==
    \A i \in Tasks :
        (Accepted(i) /\ HasCredential) =>
            /\ Len(net[i]) = 1
            /\ CarriesImageSize(i, 1) <=>
                  /\ "resolution" \in DOMAIN inv[i].params
                  /\ inv[i].params.model = NANO_BANANA_PRO
            /\ CarriesImageSize(i, 1) =>
                  net[i][1].body.generationConfig.imageConfig.imageSize
                      = inv[i].params.resolution

C5_Witness ==
    \E i \in Tasks :
        /\ inv[i].pc = "awaiting"
        /\ inv[i].tool = EDIT
        /\ inv[i].params.model = NANO_BANANA
        /\ "resolution" \in DOMAIN inv[i].params
        /\ inv[i].params.resolution = "4K"
        /\ Len(net[i]) = 1
        /\ ~CarriesImageSize(i, 1)

\* C6 as stated: generate with the base-tier model and useGoogleSearch = true
\* is not rejected and its envelope carries no search-grounding tool.
C6_SearchDroppedForBase ==
    \A i \in Tasks :
        (/\ Accepted(i) /\ HasCredential
         /\ inv[i].tool = GENERATE
         /\ inv[i].params.model = NANO_BANANA
         /\ inv[i].params.use_google_search) =>
            /\ Len(net[i]) = 1
            /\ "tools" \notin DOMAIN net[i][1].body

C8_NoCredentialNoRequest ==
    ~HasCredential =>
        \A i \in Tasks :
            /\ net[i] = <<>>
            /\ inv[i].pc # "awaiting"
            /\ Accepted(i) =>
                  /\ "response" \notin DOMAIN inv[i]
                  /\ Output(i).success = FALSE
                  /\ Output(i).error =
                        "GEMINI_API_KEY environment variable is required. Get your API key from https://aistudio.google.com/apikey"

C8_Witness ==
    \E i \in Tasks :
        /\ env = [GEMINI_API_KEY |-> ""]
        /\ inv[i].pc = "done"
        /\ inv[i].accepted
        /\ inv[i].tool = COMPOSE
        /\ net[i] = <<>>
        /\ Output(i).success = FALSE

\* C9: an invocation that passes validation with a credential present issues
\* exactly one HTTP request, a POST to {base}/{selected model}:generateContent,
\* and never a second one, whatever the outcome: there is no retry.
C9_ExactlyOneRequest ==
    \A i \in Tasks :
        (Accepted(i) /\ HasCredential) =>
            /\ Len(net[i]) = 1
            /\ net[i][1].method = "POST"
            /\ net[i][1].url =
                  "https://generativelanguage.googleapis.com/v1beta/models/"
                  \o inv[i].params.model \o ":generateContent"

C9_Witness ==
    \E i \in Tasks :
        /\ Answered(i)
        /\ ~inv[i].response.ok
        /\ inv[i].params.model = NANO_BANANA
        /\ Output(i).success = FALSE
        /\ Len(net[i]) = 1

\* the message field of the structured error object that text parses to
StructuredMessage(text) ==
    IF text = "{\"error\":{\"code\":400,\"message\":\"Invalid argument\",\"status\":\"INVALID_ARGUMENT\"}}"
    THEN "Invalid argument"
    ELSE ""

\* C10: on a non-2xx response the call fails with one error that embeds the
\* HTTP status code and carries the structured error object's message when
\* the body parses to one with a non-empty message, and the raw body text
\* otherwise; the body never reaches the normalizer.
C10_ErrorStatusMessage ==
    \A i \in Tasks :
        (Answered(i) /\ ~inv[i].response.ok) =>
            LET text == inv[i].response.text
                message == IF StructuredMessage(text) # ""
                           THEN StructuredMessage(text) ELSE text
            IN  /\ Output(i).success = FALSE
                /\ Output(i).error =
                      "Gemini API error (" \o ToString(inv[i].response.status) \o "): "
                      \o message
                /\ DOMAIN Output(i) = {"success", "model", "prompt", "error"}

C10_Witness ==
    \E i \in Tasks :
        /\ Answered(i)
        /\ ~inv[i].response.ok
        /\ inv[i].response.status = 429
        /\ inv[i].response.text =
              "{\"error\":{\"code\":429,\"message\":\"\",\"status\":\"RESOURCE_EXHAUSTED\"}}"
        /\ Output(i).error =
              "Gemini API error (429): {\"error\":{\"code\":429,\"message\":\"\",\"status\":\"RESOURCE_EXHAUSTED\"}}"

\* invocation i ran its handler to the end
Handled(i) == inv[i].pc = "done" /\ inv[i].accepted

\* the message of the failure that invocation i met, by failure kind
FailureMessage(i) ==
    IF ~HasCredential
    THEN "GEMINI_API_KEY environment variable is required. Get your API key from https://aistudio.google.com/apikey"
    ELSE IF "response" \notin DOMAIN inv[i] THEN "fetch failed"
    ELSE IF ~inv[i].response.ok
    THEN "Gemini API error (" \o ToString(inv[i].response.status) \o "): "
         \o (IF StructuredMessage(inv[i].response.text) # ""
             THEN StructuredMessage(inv[i].response.text) ELSE inv[i].response.text)
    ELSE IF inv[i].response.json.threw THEN inv[i].response.json.message
    ELSE IF ZeroCandidates(i) THEN "No response candidates returned from API"
    ELSE IF "content" \notin DOMAIN inv[i].response.json.value.candidates[1]
    THEN "Cannot read properties of undefined (reading 'parts')"
    ELSE "parts is not iterable"

FailureTextPrefixes ==
    {":x: Image generation failed\n\n**Error:** ",
     ":x: Image editing failed\n\n**Error:** ",
     ":x: Image composition failed\n\n**Error:** "}

FailureTextSuffixes ==
    {"",
     "\n\n**Troubleshooting:**\n- Ensure GEMINI_API_KEY environment variable is set\n- Check if your prompt complies with content policies\n- Try again if rate limited"}

\* C11: no failure escapes the tool boundary: on a missing credential, a
\* non-2xx status, a network or JSON-parse exception, zero candidates or a
\* malformed candidate the handler returns {success:false, model, prompt,
\* error} with the failure's message and a text that contains it; success:true
\* is returned only when the network call and the normalization both completed.
C11_FailuresBecomeResults ==
    \A i \in Tasks :
        Handled(i) =>
            /\ "returned" \in DOMAIN inv[i]
            /\ Output(i).success <=> Normalized(i)
            /\ ~Normalized(i) =>
                  /\ Output(i) =
                        [success |-> FALSE,
                         model |-> IF inv[i].tool = COMPOSE
                                   THEN NANO_BANANA_PRO ELSE inv[i].params.model,
                         prompt |-> inv[i].params.prompt,
                         error |-> FailureMessage(i)]
                  /\ Len(inv[i].returned.content) = 1
                  /\ \E pre \in FailureTextPrefixes, suf \in FailureTextSuffixes :
                        inv[i].returned.content[1].text = pre \o FailureMessage(i) \o suf

C11_Witness ==
    \E i \in Tasks :
        /\ Handled(i)
        /\ HasCredential
        /\ inv[i].tool = EDIT
        /\ Answered(i)
        /\ inv[i].response.ok
        /\ inv[i].response.json.threw
        /\ Output(i).success = FALSE
        /\ Output(i).error = "Unexpected token < in JSON at position 0"

\* C12: every result of the composition tool, success or failure, reports
\* model = the Pro identifier, and the composition contract accepts no other
\* model value: an accepted composition input has model = Pro.
C12_ComposeModelIsPro ==
    \A i \in Tasks :
        (inv[i].pc = "done" /\ inv[i].tool = COMPOSE) =>
            /\ inv[i].accepted =>
                  /\ inv[i].params.model = NANO_BANANA_PRO
                  /\ Output(i).model = NANO_BANANA_PRO
                  /\ Len(net[i]) = 1 =>
                        net[i][1].url =
                            "https://generativelanguage.googleapis.com/v1beta/models/gemini-3-pro-image-preview:generateContent"

C12_Witness ==
    \E i \in Tasks :
        /\ Handled(i)
        /\ inv[i].tool = COMPOSE
        /\ Answered(i)
        /\ ~inv[i].response.ok
        /\ Output(i).success = FALSE
        /\ Output(i).model = NANO_BANANA_PRO

----------------------------------------------------------------------------
(* The input contracts, stated field by field *)

\* invocation i was submitted with a raw input, accepted or not
Submitted(i) == inv[i].pc \in {"awaiting", "done"}

PromptInContract(raw) ==
    /\ "prompt" \in DOMAIN raw
    /\ Len(raw.prompt) >= 1
    /\ Len(raw.prompt) <= 10000

AllowedMimeTypes == {"image/png", "image/jpeg", "image/jpg", "image/gif", "image/webp"}

ImageInContract(base64, mime) == base64 # "" /\ mime \in AllowedMimeTypes

DeclaredFields(tool) ==
    CASE tool = GENERATE ->
            {"prompt", "model", "aspect_ratio", "resolution", "use_google_search"}
      [] tool = EDIT ->
            {"prompt", "image_base64", "image_mime_type", "model", "aspect_ratio",
             "resolution"}
      [] tool = COMPOSE -> {"prompt", "images", "model", "aspect_ratio", "resolution"}

OptionsInContract(tool, raw) ==
    /\ "model" \in DOMAIN raw =>
          raw.model \in (IF tool = COMPOSE
                         THEN {"gemini-3-pro-image-preview"}
                         ELSE {"gemini-2.5-flash-image", "gemini-3-pro-image-preview"})
    /\ "aspect_ratio" \in DOMAIN raw =>
          raw.aspect_ratio \in
              {"1:1", "2:3", "3:2", "3:4", "4:3", "4:5", "5:4", "9:16", "16:9", "21:9"}
    /\ "resolution" \in DOMAIN raw => raw.resolution \in {"1K", "2K", "4K"}

ImagesInContract(tool, raw) ==
    CASE tool = GENERATE -> TRUE
      [] tool = EDIT ->
            /\ {"image_base64", "image_mime_type"} \subseteq DOMAIN raw
            /\ ImageInContract(raw.image_base64, raw.image_mime_type)
      [] tool = COMPOSE ->
            /\ "images" \in DOMAIN raw
            /\ Len(raw.images) >= 1
            /\ Len(raw.images) <= 14
            /\ \A k \in 1..Len(raw.images) :
                  /\ {"base64", "mime_type"} \subseteq DOMAIN raw.images[k]
                  /\ ImageInContract(raw.images[k].base64, raw.images[k].mime_type)

\* everything the contract of the tool asks of raw, the prompt aside
RestInContract(tool, raw) ==
    /\ DOMAIN raw \subseteq DeclaredFields(tool)
    /\ OptionsInContract(tool, raw)
    /\ ImagesInContract(tool, raw)

\* C13: on generate, edit and compose a prompt of length 0 or of length 10001
\* or more is rejected, and a prompt of length 1 to 10000 is accepted when
\* the other fields are valid.
C13_PromptLengthInclusive ==
    \A i \in Tasks :
        (Submitted(i) /\ "prompt" \in DOMAIN inv[i].raw) =>
            /\ (Len(inv[i].raw.prompt) = 0 \/ Len(inv[i].raw.prompt) >= 10001)
                  => ~inv[i].accepted
            /\ (PromptInContract(inv[i].raw) /\ RestInContract(inv[i].tool, inv[i].raw))
                  => inv[i].accepted

C13_Witness ==
    \E i \in Tasks :
        /\ Submitted(i)
        /\ inv[i].accepted
        /\ inv[i].tool = EDIT
        /\ Len(inv[i].raw.prompt) = 10000

\* the inline-binary parts of a request envelope
InlineParts(request) ==
    {k \in 1..Len(request.body.contents[1].parts) :
        "inline_data" \in DOMAIN request.body.contents[1].parts[k]}

\* C14: the composition tool rejects an images array of length 0 or of
\* length 15 or more, accepts one of length 1 to 14 whose entries are valid
\* (the other fields being valid), and no request envelope carries more than
\* 14 inline-binary parts.
C14_ImageCountInclusive ==
    \A i \in Tasks :
        /\ (Submitted(i) /\ inv[i].tool = COMPOSE /\ "images" \in DOMAIN inv[i].raw) =>
              /\ (Len(inv[i].raw.images) = 0 \/ Len(inv[i].raw.images) >= 15)
                    => ~inv[i].accepted
              /\ (PromptInContract(inv[i].raw) /\ RestInContract(COMPOSE, inv[i].raw))
                    => inv[i].accepted
        /\ \A k \in 1..Len(net[i]) : Cardinality(InlineParts(net[i][k])) <= 14

C14_Witness ==
    \E i \in Tasks :
        /\ Submitted(i)
        /\ inv[i].tool = COMPOSE
        /\ inv[i].accepted
        /\ Len(inv[i].raw.images) = 14
        /\ Len(net[i]) = 1
        /\ Cardinality(InlineParts(net[i][1])) = 14

\* the (base64, mime type) pairs that invocation i submitted: the image of
\* edit, the entries of compose's images
SubmittedImages(i) ==
    CASE inv[i].tool = GENERATE -> {}
      [] inv[i].tool = EDIT ->
            IF {"image_base64", "image_mime_type"} \subseteq DOMAIN inv[i].raw
            THEN {<<inv[i].raw.image_base64, inv[i].raw.image_mime_type>>}
            ELSE {}
      [] inv[i].tool = COMPOSE ->
            IF "images" \in DOMAIN inv[i].raw
            THEN {<<inv[i].raw.images[k].base64, inv[i].raw.images[k].mime_type>> :
                     k \in 1..Len(inv[i].raw.images)}
            ELSE {}

\* C15: for edit and for every entry of compose's images, a mime type other
\* than the five allowed strings is rejected whatever the base64 content, an
\* empty base64 is rejected whatever the mime type, and an input whose images
\* all carry an allowed mime type and a non-empty base64 is accepted when its
\* other fields are valid.
C15_MimeTypeExact ==
    \A i \in Tasks :
        (Submitted(i) /\ inv[i].tool \in {EDIT, COMPOSE}) =>
            /\ \A img \in SubmittedImages(i) :
                  (img[2] \notin AllowedMimeTypes \/ img[1] = "") => ~inv[i].accepted
            /\ ( /\ \A img \in SubmittedImages(i) : ImageInContract(img[1], img[2])
                 /\ PromptInContract(inv[i].raw)
                 /\ RestInContract(inv[i].tool, inv[i].raw) )
                  => inv[i].accepted

\* an image with payload and an upper-case subtype was rejected
C15_Witness ==
    \E i \in Tasks :
        /\ Submitted(i)
        /\ inv[i].tool = COMPOSE
        /\ ~inv[i].accepted
        /\ PromptInContract(inv[i].raw)
        /\ DOMAIN inv[i].raw = {"prompt", "images"}
        /\ Len(inv[i].raw.images) = 2
        /\ inv[i].raw.images[2] = [base64 |-> "QUJD", mime_type |-> "image/PNG"]

\* raw carries a field its tool's contract does not declare, at the top level
\* or inside an entry of images
HasUndeclaredField(tool, raw) ==
    \/ ~(DOMAIN raw \subseteq DeclaredFields(tool))
    \/ /\ tool = COMPOSE
       /\ "images" \in DOMAIN raw
       /\ \E k \in 1..Len(raw.images) :
             ~(DOMAIN raw.images[k] \subseteq {"base64", "mime_type"})

\* C16: an input carrying a field that the tool's contract does not declare,
\* fields inside an entry of compose's images included, is rejected.
C16_UndeclaredFieldsRejected ==
    \A i \in Tasks :
        (Submitted(i) /\ HasUndeclaredField(inv[i].tool, inv[i].raw)) => ~inv[i].accepted

\* raw meets every input contract of its tool
InContract(tool, raw) == PromptInContract(raw) /\ RestInContract(tool, raw)

\* C17: an invocation whose parameters fail an input contract issues no
\* HTTP request: a request exists only for an invocation that the schema of
\* its tool accepted, and whose parameters meet the contract.
C17_InvalidNeverReachesNetwork ==
    \A i \in Tasks :
        /\ Len(net[i]) > 0 =>
              /\ Submitted(i)
              /\ inv[i].accepted
              /\ InContract(inv[i].tool, inv[i].raw)
        /\ (Submitted(i) /\ ~InContract(inv[i].tool, inv[i].raw)) =>
              /\ ~inv[i].accepted
              /\ net[i] = <<>>
              /\ "returned" \notin DOMAIN inv[i]

\* with a credential in place, an input with an unknown resolution was
\* rejected and nothing was sent
C17_Witness ==
    \E i \in Tasks :
        /\ HasCredential
        /\ inv[i].pc = "done"
        /\ ~inv[i].accepted
        /\ "resolution" \in DOMAIN inv[i].raw
        /\ inv[i].raw.resolution = "4k"
        /\ net[i] = <<>>

ProUrl ==
    "https://generativelanguage.googleapis.com/v1beta/models/gemini-3-pro-image-preview:generateContent"

BaseUrl ==
    "https://generativelanguage.googleapis.com/v1beta/models/gemini-2.5-flash-image:generateContent"

\* C18 as stated: every request that carries an inline-binary part targets
\* the Pro model.
C18_ReferenceImagesOnlyToPro ==
    \A i \in Tasks : \A k \in 1..Len(net[i]) :
        InlineParts(net[i][k]) # {} => net[i][k].url = ProUrl

\* C18: every request of the composition tool, and every request carrying two
\* or more inline-binary parts, targets the Pro model; a request that carries
\* an inline-binary part to the base-tier model comes from the edit tool,
\* carries exactly one such part, and its caller named the base-tier model.
C18_BaseTierOnlyThroughEdit ==
    \A i \in Tasks : \A k \in 1..Len(net[i]) :
        /\ inv[i].tool = COMPOSE => net[i][k].url = ProUrl
        /\ Cardinality(InlineParts(net[i][k])) >= 2 => net[i][k].url = ProUrl
        /\ (InlineParts(net[i][k]) # {} /\ net[i][k].url # ProUrl) =>
              /\ inv[i].tool = EDIT
              /\ Cardinality(InlineParts(net[i][k])) = 1
              /\ net[i][k].url = BaseUrl
              /\ "model" \in DOMAIN inv[i].raw
              /\ inv[i].raw.model = "gemini-2.5-flash-image"

\* the edit tool sent its image to the base-tier model
C18_Witness ==
    \E i \in Tasks :
        /\ Submitted(i)
        /\ inv[i].tool = EDIT
        /\ Len(net[i]) = 1
        /\ net[i][1].url = BaseUrl
        /\ Cardinality(InlineParts(net[i][1])) = 1

\* no part of the list yields text or image: each is a thought, or carries
\* neither a non-empty text nor inline data
YieldsNothing(parts) ==
    \A k \in 1..Len(parts) :
        IsThought(parts[k]) \/ (~HasText(parts[k]) /\ "inlineData" \notin DOMAIN parts[k])

\* C19: a 2xx response whose first candidate yields neither text nor image
\* is reported as success:true with imageData, mimeType, text and error all
\* absent.
C19_EmptyResultIsSuccess ==
    \A i \in Tasks :
        (Normalized(i) /\ YieldsNothing(PartsOf(i))) =>
            /\ Output(i).success = TRUE
            /\ DOMAIN Output(i) \cap {"imageData", "mimeType", "text", "error"} = {}
            /\ DOMAIN Output(i) =
                  {"success", "model", "prompt"}
                  \cup (IF inv[i].tool = COMPOSE THEN {"imageCount"} ELSE {})

C19_Witness ==
    \E i \in Tasks :
        /\ Normalized(i)
        /\ PartsOf(i) = <<ThoughtPart, ThoughtImagePart>>
        /\ inv[i].tool = GENERATE
        /\ Output(i).success = TRUE
        /\ DOMAIN Output(i) = {"success", "model", "prompt"}

\* invocation i received a 2xx JSON body with two or more candidates
SeveralCandidates(i) ==
    /\ Answered(i)
    /\ inv[i].response.ok
    /\ ~inv[i].response.json.threw
    /\ "candidates" \in DOMAIN inv[i].response.json.value
    /\ Len(inv[i].response.json.value.candidates) >= 2

\* the response of invocation i with its candidates cut down to the first
FirstCandidateOnly(i) ==
    [inv[i].response EXCEPT !.json.value.candidates = << @[1] >>]

\* C20: for a response with two or more candidates the tool returns what it
\* returns for the same response cut down to its first candidate, and when
\* the first candidate yields nothing no text or image of a later candidate
\* is surfaced.
C20_OnlyFirstCandidate ==
    \A i \in Tasks :
        SeveralCandidates(i) =>
            /\ inv[i].returned =
                  handlerResume(inv[i].tool, inv[i].params, FirstCandidateOnly(i))
            /\ (Normalized(i) /\ YieldsNothing(PartsOf(i))) =>
                  DOMAIN Output(i) \cap {"imageData", "mimeType", "text"} = {}
            /\ (Normalized(i) /\ "text" \in DOMAIN Output(i)) =>
                  Output(i).text = Join(TextsOf(VisibleParts(PartsOf(i))), "\n")

\* the first candidate is empty, the second holds a text and an image, and
\* the result holds neither
C20_Witness ==
    \E i \in Tasks :
        /\ SeveralCandidates(i)
        /\ Normalized(i)
        /\ PartsOf(i) = <<>>
        /\ inv[i].response.json.value.candidates[2].content.parts = <<TextPart, ImagePartB>>
        /\ Output(i).success = TRUE
        /\ DOMAIN Output(i) \cap {"imageData", "mimeType", "text"} = {}

\* the texts of the non-thought parts that carry a non-empty text, in part
\* order
SurfacedTexts(parts) ==
    LET at == {k \in 1..Len(parts) : ~IsThought(parts[k]) /\ HasText(parts[k])}
        RECURSIVE Collect(_)
        Collect(k) ==
            IF k > Len(parts) THEN <<>>
            ELSE (IF k \in at THEN <<parts[k].text>> ELSE <<>>) \o Collect(k + 1)
    IN  Collect(1)

\* the strings of a non-empty list, each but the last followed by one newline
RECURSIVE NewlineSeparated(_)
NewlineSeparated(texts) ==
    IF Len(texts) = 1 THEN texts[1]
    ELSE NewlineSeparated(SubSeq(texts, 1, Len(texts) - 1)) \o "\n" \o texts[Len(texts)]

\* C21: the result's text is present if and only if the first candidate has
\* a non-thought part with non-empty text, and then it is the texts of those
\* parts, in part order, with a single newline between consecutive texts and
\* none before the first or after the last.
C21_TextJoinedByNewlines ==
    \A i \in Tasks :
        Normalized(i) =>
            /\ "text" \in DOMAIN Output(i) <=> SurfacedTexts(PartsOf(i)) # <<>>
            /\ "text" \in DOMAIN Output(i) =>
                  Output(i).text = NewlineSeparated(SurfacedTexts(PartsOf(i)))
            /\ PartsOf(i) = <<CaptionedImagePart, ThoughtPart, TextPart>> =>
                  Output(i).text = "Here it is\nA red circle."

C21_Witness ==
    \E i \in Tasks :
        /\ Normalized(i)
        /\ PartsOf(i) = <<CaptionedImagePart, ThoughtPart, TextPart>>
        /\ Output(i).text = "Here it is\nA red circle."

\* the envelope has one content block and asks for text and image
WellFormedEnvelope(built) ==
    /\ ~built.threw
    /\ Len(built.value.request.contents) = 1
    /\ built.value.request.generationConfig.responseModalities = <<"TEXT", "IMAGE">>

\* C22: for the same prompt, model, aspectRatio and resolution, editImage
\* with image X builds the model and envelope that editImageWithReferences
\* builds for [X], and generateImage without search grounding builds those it
\* builds for the empty list; every envelope has exactly one content block
\* and requests the modalities [TEXT, IMAGE].
C22_OneBuilder ==
    \A i \in Tasks :
        inv[i].pc = "built" =>
            /\ inv[i].edit = inv[i].withOne
            /\ ("useGoogleSearch" \notin DOMAIN inv[i].search \/ ~inv[i].search.useGoogleSearch)
                  => inv[i].generate = inv[i].withNone
            /\ WellFormedEnvelope(inv[i].generate)
            /\ WellFormedEnvelope(inv[i].edit)
            /\ WellFormedEnvelope(inv[i].withList)
            /\ Len(inv[i].withList.value.request.contents[1].parts) = 1 + Len(inv[i].images)

\* base-tier model with a resolution: the three builders leave imageSize out
C22_Witness ==
    \E i \in Tasks :
        /\ inv[i].pc = "built"
        /\ inv[i].shared = [prompt |-> "x", model |-> "gemini-2.5-flash-image",
                            aspectRatio |-> "16:9", resolution |-> "2K"]
        /\ inv[i].search = [useGoogleSearch |-> FALSE]
        /\ inv[i].edit = inv[i].withOne
        /\ inv[i].generate = inv[i].withNone
        /\ Len(inv[i].edit.value.request.contents[1].parts) = 2
        /\ inv[i].generate.value.request.generationConfig.imageConfig = [aspectRatio |-> "16:9"]

\* what invocation i does when it is the only one: the request it sends and,
\* once it is done, the value it returns, from its own arguments and its own
\* response
AloneStart(i) == handlerStart(inv[i].tool, inputSchema(inv[i].tool, inv[i].raw).data, env)

AloneRequests(i) ==
    IF AloneStart(i).suspended THEN << AloneStart(i).fetch >> ELSE <<>>

AloneReturn(i) ==
    IF ~AloneStart(i).suspended THEN AloneStart(i).returned
    ELSE IF "response" \in DOMAIN inv[i]
    THEN handlerResume(inv[i].tool, inv[i].params, inv[i].response)
    ELSE handlerReject(inv[i].tool, inv[i].params, Throw("fetch failed"))

\* C23: with two invocations in flight in any interleaving, each invocation's
\* request is the one built from its own parameters and its result the one
\* computed from its own response, as when it runs alone.
C23_NoInterference ==
    \A i \in Pair :
        (inv[i].pc \in {"awaiting", "done"} /\ inv[i].accepted) =>
            /\ net[i] = AloneRequests(i)
            /\ inv[i].pc = "done" => inv[i].returned = AloneReturn(i)

\* both invocations are suspended in fetch, with different envelopes
C23_Witness ==
    /\ inv[1].pc = "awaiting"
    /\ inv[2].pc = "awaiting"
    /\ inv[1].tool = GENERATE
    /\ inv[2].tool = COMPOSE
    /\ Len(net[1]) = 1
    /\ Len(net[2]) = 1
    /\ net[1][1].body # net[2][1].body

\* C24: a non-thought part with both non-empty text and inline data gives
\* its text only, a part with inline data whose text is absent or empty is an
\* image part, and imageData is present exactly when some non-thought part of
\* the first candidate has inline data and no non-empty text, and is then the
\* data of such a part.
C24_TextFirstClassification ==
    \A i \in Tasks :
        Normalized(i) =>
            LET images == ImagePositions(PartsOf(i)) IN
            /\ "imageData" \in DOMAIN Output(i) <=> images # {}
            /\ "mimeType" \in DOMAIN Output(i) <=> images # {}
            /\ "imageData" \in DOMAIN Output(i) =>
                  \E k \in images :
                      /\ Output(i).imageData = PartsOf(i)[k].inlineData.data
                      /\ Output(i).mimeType = PartsOf(i)[k].inlineData.mimeType
            /\ \A k \in 1..Len(PartsOf(i)) :
                  (~IsThought(PartsOf(i)[k]) /\ HasText(PartsOf(i)[k])) =>
                      /\ "text" \in DOMAIN Output(i)
                      /\ \E j \in 1..Len(SurfacedTexts(PartsOf(i))) :
                            SurfacedTexts(PartsOf(i))[j] = PartsOf(i)[k].text
            /\ PartsOf(i) = <<CaptionedImagePart>> =>
                  /\ Output(i).text = "Here it is"
                  /\ "imageData" \notin DOMAIN Output(i)
            /\ PartsOf(i) = <<EmptyTextImagePart>> =>
                  /\ Output(i).imageData = "AAAA"
                  /\ "text" \notin DOMAIN Output(i)

\* a captioned image after an image with empty text: the caption is the text
\* and the first part is the image
C24_Witness ==
    \E i \in Tasks :
        /\ Normalized(i)
        /\ PartsOf(i) = <<EmptyTextImagePart, CaptionedImagePart>>
        /\ Output(i).text = "Here it is"
        /\ Output(i).imageData = "AAAA"
        /\ Output(i).mimeType = "image/png"

TokenConfigured == "MCP_AUTH_TOKEN" \in DOMAIN env /\ env.MCP_AUTH_TOKEN # ""

\* the Authorization header is the token, or "Bearer " followed by the token
HeaderMatches(headers) ==
    /\ "authorization" \in DOMAIN headers
    /\ \/ headers.authorization = env.MCP_AUTH_TOKEN
       \/ headers.authorization = "Bearer " \o env.MCP_AUTH_TOKEN

\* C25: with MCP_AUTH_TOKEN configured, a POST to /mcp reaches a tool
\* handler only if its Authorization header is the token or "Bearer "
\* followed by the token, and a request whose header is missing or matches
\* neither form is answered 401 with no tool run and no request sent; with
\* MCP_AUTH_TOKEN not configured no request is answered 401.
C25_BearerTokenGate ==
    \A i \in Tasks :
        "headers" \in DOMAIN inv[i] =>
            /\ (TokenConfigured /\ inv[i].pc \in {"connected", "awaiting", "done"})
                  => HeaderMatches(inv[i].headers)
            /\ (TokenConfigured /\ ~HeaderMatches(inv[i].headers)) =>
                  /\ inv[i].pc = "closed"
                  /\ inv[i].status = 401
            /\ inv[i].pc = "closed" =>
                  /\ TokenConfigured
                  /\ net[i] = <<>>
                  /\ DOMAIN inv[i] \cap {"tool", "returned"} = {}
            /\ ~TokenConfigured => inv[i].pc \in {"connected", "awaiting", "done"}

\* a lower-case scheme word is answered 401
C25_Witness ==
    \E i \in Tasks :
        /\ inv[i].pc = "closed"
        /\ env.MCP_AUTH_TOKEN = "s3cret"
        /\ inv[i].headers = [authorization |-> "bearer s3cret"]
        /\ inv[i].status = 401
        /\ net[i] = <<>>

====
